---- MODULE Spec2Model ----
(***************************************************************************)
(* A model of the limit order book of src/orderbook/book.py.               *)
(*                                                                         *)
(* The book keeps two priority-ordered lists of resting records (buy and   *)
(* sell) and a logical clock.  Its only mutating operation is add(order),  *)
(* which matches the incoming order against the opposite side, price level *)
(* by price level, first against the visible peak of every record of the   *)
(* level and then against the hidden (iceberg) quantity, re-sorts the      *)
(* opposite side and rests the remainder of the order on its own side.     *)
(*                                                                         *)
(* Order and OrderBookRecord are imported by book.py from modules that are *)
(* not part of the reviewed sources; the record constructor and the record *)
(* comparison are modelled from the specification (NewRecord, Less).       *)
(***************************************************************************)
EXTENDS Integers, Sequences, FiniteSets

\* ------------------------------------------------------------------------
\* Bounds of the model
\* ------------------------------------------------------------------------
MaxId == 3
MaxPrice == 2
MaxQty == 5
MaxPeak == 2
MaxClock == 3

VARIABLES
    buy,            \* OrderBook.buy : records in priority order
    sell,           \* OrderBook.sell : records in priority order
    timestamp,      \* OrderBook.timestamp : the logical clock
    failure,        \* exception raised by the last add ("none" when it returned)
    order,          \* argument of the last add call (NoOrder before the first)
    accepted,       \* the last add call passed the duplicate check
    ret,            \* list of transactions returned by the last add call
    volume_total,   \* sum of the volumes of all transactions returned so far
    accepted_total  \* sum of the quantities of all accepted orders so far

vars == <<buy, sell, timestamp, failure, order, accepted, ret,
          volume_total, accepted_total>>

\* The state of the book as objects, for two threads that call add on one
\* book at the same time (SpecConc): records and lists are objects that the
\* threads share by reference.
VARIABLES
    c_recs,         \* the OrderBookRecord objects: handle -> record
    c_lists,        \* the SortedList objects: list id -> sequence of handles
    c_buy,          \* OrderBook.buy : the id of a list
    c_sell,         \* OrderBook.sell : the id of a list
    c_timestamp,    \* OrderBook.timestamp
    c_seed,         \* the order that rests in the book when the threads start
    thread          \* thread -> its position in add and its local variables

cvars == <<c_recs, c_lists, c_buy, c_sell, c_timestamp, c_seed, thread>>

Min(a, b) == IF a <= b THEN a ELSE b

\* ------------------------------------------------------------------------
\* Orders and records
\* ------------------------------------------------------------------------
Orders ==
    [order_id : 1..MaxId, is_buy : BOOLEAN, price : 1..MaxPrice,
     quantity : 1..MaxQty, max_peak_size : 1..MaxPeak]

NoOrder ==
    [order_id |-> 0, is_buy |-> FALSE, price |-> 0, quantity |-> 0,
     max_peak_size |-> 0]

\* OrderBookRecord(order, timestamp): the resting form of an order.
NewRecord(o, now) ==
    [order_id |-> o.order_id, is_buy |-> o.is_buy, price |-> o.price,
     quantity |-> o.quantity, max_peak_size |-> o.max_peak_size,
     current_peak_size |-> Min(o.quantity, o.max_peak_size),
     timestamp |-> now, order_priority |-> 0]

\* The comparison of two records of one side: best price first (highest for
\* buy records, lowest for sell records), then earliest timestamp, then
\* order_priority, then order_id.
Less(a, b) ==
    LET pa == IF a.is_buy THEN 0 - a.price ELSE a.price
        pb == IF b.is_buy THEN 0 - b.price ELSE b.price
    IN  \/ pa < pb
        \/ pa = pb /\ a.timestamp < b.timestamp
        \/ pa = pb /\ a.timestamp = b.timestamp
                   /\ a.order_priority < b.order_priority
        \/ pa = pb /\ a.timestamp = b.timestamp
                   /\ a.order_priority = b.order_priority
                   /\ a.order_id < b.order_id

\* SortedList.add(record): insert to the right of every element that does
\* not compare greater than the record.
SortedAdd(lst, rec) ==
    LET n == Cardinality({i \in 1..Len(lst) : ~Less(rec, lst[i])})
    IN  SubSeq(lst, 1, n) \o <<rec>> \o SubSeq(lst, n + 1, Len(lst))

RECURSIVE SortedFrom(_, _, _)
SortedFrom(acc, lst, k) ==
    IF k > Len(lst) THEN acc
    ELSE SortedFrom(SortedAdd(acc, lst[k]), lst, k + 1)

\* SortedList(iterable)
SortedList(lst) == SortedFrom(<<>>, lst, 1)

RECURSIVE FilterNonZero(_)
FilterNonZero(lst) ==
    IF lst = <<>> THEN <<>>
    ELSE IF Head(lst).quantity # 0
         THEN <<Head(lst)>> \o FilterNonZero(Tail(lst))
         ELSE FilterNonZero(Tail(lst))

\* Rebuild without the filter: exhausted records stay in the queue.
RebuildKeepEmpty(against) == SortedList(against)

\* Rebuild without the sort: the records keep their old positions.
RebuildUnsorted(against) == FilterNonZero(against)

\* against = filter(lambda x: x.quantity != 0, against); SortedList(against)
Rebuild(against) == SortedList(FilterNonZero(against))

\* ------------------------------------------------------------------------
\* The transactions dictionary: (record id, price) -> volume, in insertion
\* order.
\* ------------------------------------------------------------------------
HasKey(d, id, price) ==
    \E i \in 1..Len(d) : d[i].order_id = id /\ d[i].price = price

\* DictSet that puts a new key in front of the dictionary.
DictSetPrepend(d, id, price, v) ==
    IF HasKey(d, id, price)
    THEN [i \in 1..Len(d) |->
            IF d[i].order_id = id /\ d[i].price = price
            THEN [d[i] EXCEPT !.volume = v] ELSE d[i]]
    ELSE <<[order_id |-> id, price |-> price, volume |-> v]>> \o d

\* d[(id, price)] = v
DictSet(d, id, price, v) ==
    IF HasKey(d, id, price)
    THEN [i \in 1..Len(d) |->
            IF d[i].order_id = id /\ d[i].price = price
            THEN [d[i] EXCEPT !.volume = v] ELSE d[i]]
    ELSE Append(d, [order_id |-> id, price |-> price, volume |-> v])

\* DictAdd that overwrites the volume instead of adding to it.
DictAddAssign(d, id, price, v) ==
    [i \in 1..Len(d) |->
        IF d[i].order_id = id /\ d[i].price = price
        THEN [d[i] EXCEPT !.volume = v] ELSE d[i]]

\* d[(id, price)] += v   (the key must exist)
DictAdd(d, id, price, v) ==
    [i \in 1..Len(d) |->
        IF d[i].order_id = id /\ d[i].price = price
        THEN [d[i] EXCEPT !.volume = @ + v] ELSE d[i]]

\* ------------------------------------------------------------------------
\* Matching.  A matching state st is
\*   [quantity     : the outstanding quantity of the incoming order,
\*    against      : the opposite side, mutated in place,
\*    transactions : the dictionary,
\*    failure      : "none" or the name of the exception raised]
\* and a price level is a sequence of positions of st.against.
\* ------------------------------------------------------------------------
\* IsGoodPrice that accepts every price.
IsGoodPriceAny(o, record) == TRUE

\* IsGoodPrice with strict comparisons.
IsGoodPriceStrict(o, record) ==
    IF o.is_buy THEN o.price > record.price ELSE o.price < record.price

IsGoodPrice(o, record) ==
    IF o.is_buy THEN o.price >= record.price ELSE o.price <= record.price

RECURSIVE Unique(_)
Unique(lst) ==
    IF lst = <<>> THEN <<>>
    ELSE LET r == Unique(SubSeq(lst, 1, Len(lst) - 1))
             x == lst[Len(lst)]
         IN  IF \E i \in 1..Len(r) : r[i] = x THEN r ELSE Append(r, x)

\* the positions of the set S in increasing order (the order of iteration of
\* filter() over a list)
RECURSIVE Ascending(_)
Ascending(S) ==
    IF S = {} THEN <<>>
    ELSE LET m == CHOOSE x \in S : \A y \in S : x <= y
         IN  <<m>> \o Ascending(S \ {m})

\* VisibleStep that does not record the fill in the dictionary.
VisibleStepNoRecord(st, i) ==
    LET record == st.against[i]
        filled_quantity == Min(record.current_peak_size, st.quantity)
    IN  [st EXCEPT
            !.against[i] =
                [record EXCEPT
                    !.current_peak_size = @ - filled_quantity,
                    !.quantity = @ - filled_quantity],
            !.quantity = @ - filled_quantity]

\* VisibleStep that forgets to reduce the outstanding quantity of the order.
VisibleStepKeepsOrder(st, i) ==
    LET record == st.against[i]
        filled_quantity == Min(record.current_peak_size, st.quantity)
    IN  [st EXCEPT
            !.against[i] =
                [record EXCEPT
                    !.current_peak_size = @ - filled_quantity,
                    !.quantity = @ - filled_quantity],
            !.transactions =
                DictSet(@, record.order_id, record.price, filled_quantity)]

\* body of the loop of __fill_visible_peak_sizes for the record at position i
VisibleStep(st, i) ==
    LET record == st.against[i]
        filled_quantity == Min(record.current_peak_size, st.quantity)
    IN  [st EXCEPT
            !.against[i] =
                [record EXCEPT
                    !.current_peak_size = @ - filled_quantity,
                    !.quantity = @ - filled_quantity],
            !.quantity = @ - filled_quantity,
            !.transactions =
                DictSet(@, record.order_id, record.price, filled_quantity)]

\* FillVisibleFrom that stops after the first record of the level.
RECURSIVE FillVisibleFromFirst(_, _, _)
FillVisibleFromFirst(st, records, k) ==
    IF k > 1 \/ k > Len(records) \/ st.quantity = 0 THEN st
    ELSE FillVisibleFromFirst(VisibleStep(st, records[k]), records, k + 1)

RECURSIVE FillVisibleFrom(_, _, _)
FillVisibleFrom(st, records, k) ==
    IF k > Len(records) \/ st.quantity = 0 THEN st
    ELSE FillVisibleFrom(VisibleStep(st, records[k]), records, k + 1)

FillVisiblePeakSizes(st, records) == FillVisibleFrom(st, records, 1)

\* HiddenPeak that replenishes to the full peak, without the modulo.
HiddenPeakFull(record, quantity) ==
    Min(record.max_peak_size, record.quantity - quantity)

\* the new current_peak_size of a record that satisfies the whole outstanding
\* quantity of the order from its hidden quantity
HiddenPeak(record, quantity) ==
    Min(record.max_peak_size - (quantity % record.max_peak_size),
        record.quantity - quantity)

\* body of the loop of __fill_hidden_iceberg_orders for the record at
\* position i
HiddenStep(st, i, now) ==
    LET record == st.against[i]
        partial == record.quantity > st.quantity
        peak == IF partial THEN HiddenPeak(record, st.quantity)
                ELSE record.current_peak_size
        filled_quantity == IF partial THEN st.quantity ELSE record.quantity
        mutated == [st EXCEPT
                      !.against[i] =
                          [record EXCEPT
                              !.current_peak_size = peak,
                              !.quantity = @ - filled_quantity,
                              !.timestamp = now],
                      !.quantity = @ - filled_quantity]
    IN  IF HasKey(st.transactions, record.order_id, record.price)
        THEN [mutated EXCEPT
                !.transactions =
                    DictAdd(@, record.order_id, record.price, filled_quantity)]
        ELSE [mutated EXCEPT !.failure = "KeyError"]

RECURSIVE FillHiddenFrom(_, _, _, _)
FillHiddenFrom(st, records, k, now) ==
    IF k > Len(records) \/ st.quantity = 0 \/ st.failure # "none" THEN st
    ELSE FillHiddenFrom(HiddenStep(st, records[k], now), records, k + 1, now)

FillHiddenIcebergOrders(st, records, now) == FillHiddenFrom(st, records, 1, now)

\* FixStep that replenishes without restamping the record.
FixStepNoStamp(st, i, order_priority, now) ==
    LET record == st.against[i]
    IN  IF record.current_peak_size = 0
        THEN [st EXCEPT !.against[i] =
                [record EXCEPT
                    !.current_peak_size =
                        Min(record.quantity, record.max_peak_size),
                    !.order_priority = order_priority]]
        ELSE st

\* FixStep that restamps every record of the level, empty peak or not.
FixStepAlways(st, i, order_priority, now) ==
    LET record == st.against[i]
    IN  [st EXCEPT !.against[i] =
            [record EXCEPT
                !.current_peak_size =
                    Min(record.quantity, record.max_peak_size),
                !.timestamp = now,
                !.order_priority = order_priority]]

\* body of the loop of __fix_empty_records for the record at position i,
\* the order_priority-th (from 0) of its level
FixStep(st, i, order_priority, now) ==
    LET record == st.against[i]
    IN  IF record.quantity < 0 THEN [st EXCEPT !.failure = "AssertionError"]
        ELSE IF record.current_peak_size = 0
        THEN [st EXCEPT !.against[i] =
                [record EXCEPT
                    !.current_peak_size =
                        Min(record.quantity, record.max_peak_size),
                    !.timestamp = now,
                    !.order_priority = order_priority]]
        ELSE st

RECURSIVE FixFrom(_, _, _, _)
FixFrom(st, records, k, now) ==
    IF k > Len(records) \/ st.failure # "none" THEN st
    ELSE FixFrom(FixStep(st, records[k], k - 1, now), records, k + 1, now)

FixEmptyRecords(st, records, now) == FixFrom(st, records, 1, now)

\* Level without the hidden pass.
LevelVisibleOnly(st, records, now) ==
    FixEmptyRecords(FillVisiblePeakSizes(st, records), records, now)

\* one iteration of the loop over the price levels in __try_to_fill_an_order
Level(st, records, now) ==
    LET v == FillVisiblePeakSizes(st, records)
        h == FillHiddenIcebergOrders(v, records, now)
    IN  IF h.failure # "none" THEN h ELSE FixEmptyRecords(h, records, now)

RECURSIVE Walk(_, _, _, _, _)
Walk(st, candidates, prices, k, now) ==
    IF k > Len(prices) \/ st.quantity = 0 \/ st.failure # "none" THEN st
    ELSE LET records ==
                Ascending({i \in candidates :
                              st.against[i].price = prices[k]})
         IN  Walk(Level(st, records, now), candidates, prices, k + 1, now)

\* Result with the two roles exchanged.
ResultSwapped(o, transactions) ==
    [i \in 1..Len(transactions) |->
        [buy_id |-> IF o.is_buy THEN transactions[i].order_id
                    ELSE o.order_id,
         sell_id |-> IF o.is_buy THEN o.order_id
                     ELSE transactions[i].order_id,
         price |-> transactions[i].price,
         volume |-> transactions[i].volume]]

\* Transaction(buy_id, sell_id, price, volume) for every item of the
\* dictionary, in the order of the dictionary
Result(o, transactions) ==
    [i \in 1..Len(transactions) |->
        [buy_id |-> IF o.is_buy THEN o.order_id
                    ELSE transactions[i].order_id,
         sell_id |-> IF o.is_buy THEN transactions[i].order_id
                     ELSE o.order_id,
         price |-> transactions[i].price,
         volume |-> transactions[i].volume]]

\* the loop over the price levels of __try_to_fill_an_order(order), on the
\* records of the opposite side
MatchWalk(o, against, now) ==
    LET candidates == {i \in 1..Len(against) : IsGoodPrice(o, against[i])}
        candidate_records == Ascending(candidates)
        prices == Unique([k \in 1..Len(candidate_records) |->
                            against[candidate_records[k]].price])
    IN  Walk([quantity |-> o.quantity, against |-> against,
              transactions |-> <<>>, failure |-> "none"],
             candidates, prices, 1, now)

\* __try_to_fill_an_order(order): the outstanding quantity of the order, the
\* new opposite side and the transactions
TryToFillAnOrder(o, against, now) ==
    LET st == MatchWalk(o, against, now)
    IN  IF st.failure # "none"
        THEN [quantity |-> st.quantity, against |-> st.against,
              res |-> <<>>, failure |-> st.failure]
        ELSE [quantity |-> st.quantity, against |-> Rebuild(st.against),
              res |-> Result(o, st.transactions), failure |-> "none"]

\* RestOrder that rests the quantity the order was submitted with.
RestOrderOriginal(side, o, quantity, now) ==
    SortedAdd(side, NewRecord(o, now))

\* the remainder of the order (its outstanding quantity) rests on its side
RestOrder(side, o, quantity, now) ==
    SortedAdd(side, NewRecord([o EXCEPT !.quantity = quantity], now))

\* IsDuplicate that scans the sell side only.
IsDuplicateSellOnly(o, b, s) ==
    \E i \in 1..Len(s) : s[i].order_id = o.order_id

\* IsDuplicate that scans the buy side only.
IsDuplicateBuyOnly(o, b, s) ==
    \E i \in 1..Len(b) : b[i].order_id = o.order_id

\* the duplicate check of add: some resting record has the id of the order
IsDuplicate(o, b, s) ==
    \E i \in 1..Len(b \o s) : (b \o s)[i].order_id = o.order_id

RECURSIVE SumVolume(_)
SumVolume(res) ==
    IF res = <<>> THEN 0 ELSE Head(res).volume + SumVolume(Tail(res))

\* ------------------------------------------------------------------------
\* The state machine
\* ------------------------------------------------------------------------
\* add(o) on the book (b, s) at clock ts, as one step: the new book and
\* clock, whether the order passed the duplicate check, the value returned
\* and the exception raised
AddResult(b, s, ts, o) ==
    IF IsDuplicate(o, b, s)
    THEN [buy |-> b, sell |-> s, timestamp |-> ts + 1, accepted |-> FALSE,
          ret |-> <<>>, failure |-> "none"]
    ELSE LET against == IF o.is_buy THEN s ELSE b
             side == IF o.is_buy THEN b ELSE s
             t == TryToFillAnOrder(o, against, ts + 1)
             rested == IF t.quantity # 0 /\ t.failure = "none"
                       THEN RestOrder(side, o, t.quantity, ts + 1)
                       ELSE side
         IN  [buy |-> IF o.is_buy THEN rested ELSE t.against,
              sell |-> IF o.is_buy THEN t.against ELSE rested,
              timestamp |-> ts + 1, accepted |-> TRUE,
              ret |-> t.res, failure |-> t.failure]

\* no thread is running: the objects of SpecConc are not in use
ConcIdle ==
    /\ c_recs = <<>>
    /\ c_lists = <<>>
    /\ c_buy = 0
    /\ c_sell = 0
    /\ c_timestamp = 0
    /\ c_seed = NoOrder
    /\ thread = <<>>

\* OrderBook.__init__
NewBook ==
    /\ buy = <<>>
    /\ sell = <<>>
    /\ timestamp = 0
    /\ failure = "none"
    /\ order = NoOrder
    /\ accepted = FALSE
    /\ ret = <<>>
    /\ volume_total = 0
    /\ accepted_total = 0

Init == NewBook /\ ConcIdle

\* the body of OrderBook.add(o)
AddCall(o) ==
    \E r \in {AddResult(buy, sell, timestamp, o)} :
        /\ failure = "none"
        /\ timestamp' = r.timestamp
        /\ order' = o
        /\ accepted' = r.accepted
        /\ ret' = r.ret
        /\ buy' = r.buy
        /\ sell' = r.sell
        /\ failure' = r.failure
        /\ volume_total' = volume_total + SumVolume(r.ret)
        /\ accepted_total' =
              accepted_total + (IF r.accepted THEN o.quantity ELSE 0)
        /\ UNCHANGED cvars

\* OrderBook.add(o), for the calls within the bound of the model
add(o) == timestamp < MaxClock /\ AddCall(o)

Next == \E o \in Orders : add(o)

Spec == Init /\ [][Next]_vars

\* ------------------------------------------------------------------------
\* Longer runs at one price level: iceberg orders of peak size 1 at price 1,
\* up to DeepClock calls.
\* ------------------------------------------------------------------------
DeepClock == 5
DeepQty == 4

DeepOrders ==
    {o \in [order_id : 1..MaxId, is_buy : BOOLEAN, price : {1},
            quantity : 1..DeepQty, max_peak_size : {1}] : TRUE}

addDeep(o) == timestamp < DeepClock /\ AddCall(o)

NextDeep == \E o \in DeepOrders : addDeep(o)

SpecDeep == Init /\ [][NextDeep]_vars

\* ------------------------------------------------------------------------
\* Two threads call add on one book.  add takes no lock, so the threads
\* interleave between the statements of add; the steps below are the
\* statements that read or write the shared book.
\* ------------------------------------------------------------------------
ConcQty == 2

Threads == {1, 2}

ConcOrders ==
    {o \in [order_id : 1..MaxId, is_buy : BOOLEAN, price : 1..MaxPrice,
            quantity : 1..ConcQty, max_peak_size : {1}] : TRUE}

NoRecord == NewRecord(NoOrder, 0)

\* the records of a list object
Vals(recs, lst) == [i \in 1..Len(lst) |-> recs[lst[i]]]

\* SortedList.add on a list of record objects
HSortedAdd(recs, lst, h) ==
    LET n == Cardinality({i \in 1..Len(lst) : ~Less(recs[h], recs[lst[i]])})
    IN  SubSeq(lst, 1, n) \o <<h>> \o SubSeq(lst, n + 1, Len(lst))

RECURSIVE HSortedFrom(_, _, _, _)
HSortedFrom(recs, acc, lst, k) ==
    IF k > Len(lst) THEN acc
    ELSE HSortedFrom(recs,
                     IF recs[lst[k]].quantity # 0
                     THEN HSortedAdd(recs, acc, lst[k]) ELSE acc,
                     lst, k + 1)

\* SortedList(filter(lambda x: x.quantity != 0, against)) on a list of
\* record objects
HRebuild(recs, lst) == HSortedFrom(recs, <<>>, lst, 1)

\* the local variables of a thread that is about to call add(o)
Started(o) ==
    [pc |-> "tick_read", order |-> o, ts |-> 0, against |-> 0,
     quantity |-> o.quantity, transactions |-> <<>>, side |-> 0,
     ret |-> <<>>]

\* the book holds the one record of c_seed, added at clock 1; record h + 1
\* is the one thread h may create, list 2 + h the one it may build
InitConc ==
    /\ NewBook
    /\ c_seed \in ConcOrders
    /\ c_recs = [h \in 1..3 |->
                    IF h = 1 THEN NewRecord(c_seed, 1) ELSE NoRecord]
    /\ c_lists = [l \in 1..4 |->
                    IF (l = 1 /\ c_seed.is_buy) \/ (l = 2 /\ ~c_seed.is_buy)
                    THEN <<1>> ELSE <<>>]
    /\ c_buy = 1
    /\ c_sell = 2
    /\ c_timestamp = 1
    /\ thread \in {[t \in Threads |-> Started(f[t])] :
                      f \in [Threads -> ConcOrders]}

\* self.timestamp += 1 : the read
tick_read(t) ==
    /\ thread[t].pc = "tick_read"
    /\ thread' = [thread EXCEPT ![t].ts = c_timestamp,
                                 ![t].pc = "tick_write"]
    /\ UNCHANGED <<c_recs, c_lists, c_buy, c_sell, c_timestamp, c_seed>>
    /\ UNCHANGED vars

\* self.timestamp += 1 : the write
tick_write(t) ==
    /\ thread[t].pc = "tick_write"
    /\ c_timestamp' = thread[t].ts + 1
    /\ thread' = [thread EXCEPT ![t].pc = "check"]
    /\ UNCHANGED <<c_recs, c_lists, c_buy, c_sell, c_seed>>
    /\ UNCHANGED vars

\* the duplicate check
check(t) ==
    /\ thread[t].pc = "check"
    /\ thread' =
          [thread EXCEPT ![t].pc =
              IF IsDuplicate(thread[t].order,
                             Vals(c_recs, c_lists[c_buy]),
                             Vals(c_recs, c_lists[c_sell]))
              THEN "done" ELSE "match"]
    /\ UNCHANGED <<c_recs, c_lists, c_buy, c_sell, c_timestamp, c_seed>>
    /\ UNCHANGED vars

\* the loop over the price levels of __try_to_fill_an_order: the records of
\* the opposite list are changed in place
match(t) ==
    /\ thread[t].pc = "match"
    /\ LET o == thread[t].order
           ag == IF o.is_buy THEN c_sell ELSE c_buy
           lst == c_lists[ag]
           st == MatchWalk(o, Vals(c_recs, lst), c_timestamp)
       IN  /\ c_recs' =
                 [h \in 1..3 |->
                    IF \E i \in 1..Len(lst) : lst[i] = h
                    THEN st.against[CHOOSE i \in 1..Len(lst) : lst[i] = h]
                    ELSE c_recs[h]]
           /\ thread' =
                 [thread EXCEPT
                    ![t].against = ag,
                    ![t].quantity = st.quantity,
                    ![t].transactions = st.transactions,
                    ![t].pc = IF st.failure # "none" THEN "failed"
                              ELSE "rebuild"]
    /\ UNCHANGED <<c_lists, c_buy, c_sell, c_timestamp, c_seed>>
    /\ UNCHANGED vars

\* self.sell = SortedList(against) or self.buy = SortedList(against), and
\* the transactions of the call
rebuild(t) ==
    /\ thread[t].pc = "rebuild"
    /\ LET o == thread[t].order
       IN  /\ c_lists' =
                 [c_lists EXCEPT ![2 + t] =
                    HRebuild(c_recs, c_lists[thread[t].against])]
           /\ c_sell' = IF o.is_buy THEN 2 + t ELSE c_sell
           /\ c_buy' = IF o.is_buy THEN c_buy ELSE 2 + t
           /\ thread' =
                 [thread EXCEPT
                    ![t].ret = Result(o, thread[t].transactions),
                    ![t].pc = IF thread[t].quantity # 0
                              THEN "rest_prepare" ELSE "done"]
    /\ UNCHANGED <<c_recs, c_timestamp, c_seed>>
    /\ UNCHANGED vars

\* side = self.buy if order.is_buy else self.sell;
\* record = OrderBookRecord(order, self.timestamp)
rest_prepare(t) ==
    /\ thread[t].pc = "rest_prepare"
    /\ LET o == thread[t].order
       IN  /\ c_recs' =
                 [c_recs EXCEPT ![t + 1] =
                    NewRecord([o EXCEPT !.quantity = thread[t].quantity],
                              c_timestamp)]
           /\ thread' =
                 [thread EXCEPT
                    ![t].side = IF o.is_buy THEN c_buy ELSE c_sell,
                    ![t].pc = "rest_insert"]
    /\ UNCHANGED <<c_lists, c_buy, c_sell, c_timestamp, c_seed>>
    /\ UNCHANGED vars

\* side.add(record)
rest_insert(t) ==
    /\ thread[t].pc = "rest_insert"
    /\ c_lists' = [c_lists EXCEPT ![thread[t].side] =
                      HSortedAdd(c_recs, @, t + 1)]
    /\ thread' = [thread EXCEPT ![t].pc = "done"]
    /\ UNCHANGED <<c_recs, c_buy, c_sell, c_timestamp, c_seed>>
    /\ UNCHANGED vars

NextConc ==
    \E t \in Threads :
        \/ tick_read(t)
        \/ tick_write(t)
        \/ check(t)
        \/ match(t)
        \/ rebuild(t)
        \/ rest_prepare(t)
        \/ rest_insert(t)

SpecConc == InitConc /\ [][NextConc]_<<vars, cvars>>

\* ------------------------------------------------------------------------
\* Properties
\* ------------------------------------------------------------------------
RECURSIVE SumQuantity(_)
SumQuantity(lst) ==
    IF lst = <<>> THEN 0 ELSE Head(lst).quantity + SumQuantity(Tail(lst))

Resting == buy \o sell

\* the side the last order was matched against, and its own side
Against(o, b, s) == IF o.is_buy THEN s ELSE b
OwnSide(o, b, s) == IF o.is_buy THEN b ELSE s

\* the id of the resting party of a transaction of order o
Counterparty(o, tx) == IF o.is_buy THEN tx.sell_id ELSE tx.buy_id

\* the remaining quantity of the record with the given id in lst (0 when no
\* record has it)
QuantityOf(lst, id) ==
    IF \E i \in 1..Len(lst) : lst[i].order_id = id
    THEN lst[CHOOSE i \in 1..Len(lst) : lst[i].order_id = id].quantity
    ELSE 0

\* C1: at every point, twice the volume of all transactions returned so far
\* plus the remaining quantity of all resting records equals the sum of the
\* quantities of all accepted orders.
Conservation ==
    2 * volume_total + SumQuantity(Resting) = accepted_total

\* C1 witness: trades have happened, records rest, and the last call was a
\* rejected duplicate.
ConservationWitness ==
    /\ volume_total > 0
    /\ Resting # <<>>
    /\ order # NoOrder /\ ~accepted

\* C2: every resting record has remaining quantity >= 1 and a visible
\* quantity between 0 and min(max_peak_size, remaining quantity).
RecordBounds ==
    \A i \in 1..Len(Resting) :
        LET r == Resting[i]
        IN  /\ r.quantity >= 1
            /\ 0 <= r.current_peak_size
            /\ r.current_peak_size <= Min(r.max_peak_size, r.quantity)

\* C2 witness: after a trade, a resting record shows less than
\* min(max_peak_size, remaining quantity).
RecordBoundsWitness ==
    /\ ret # <<>>
    /\ \E i \in 1..Len(Resting) :
          Resting[i].current_peak_size
              < Min(Resting[i].max_peak_size, Resting[i].quantity)

\* C3: no resting buy record has a price >= the price of a resting sell
\* record.
NoCrossedBook ==
    \A i \in 1..Len(buy) : \A j \in 1..Len(sell) :
        buy[i].price < sell[j].price

\* C3 witness: the last order traded and rested its remainder while the
\* opposite side is not empty.
NoCrossedBookWitness ==
    /\ accepted /\ ret # <<>>
    /\ \E i \in 1..Len(Resting) : Resting[i].order_id = order.order_id
    /\ buy # <<>> /\ sell # <<>>

\* C4: an add whose order id is the id of a resting record returns no
\* transaction and leaves both sides as they were.
DuplicateRejection ==
    [][(\E i \in 1..Len(Resting) : Resting[i].order_id = order'.order_id)
        => (ret' = <<>> /\ buy' = buy /\ sell' = sell)]_vars

\* C4 witness: the last call was rejected while records rest on both sides,
\* the duplicate id being on the sell side.
DuplicateRejectionWitness ==
    /\ order # NoOrder /\ ~accepted
    /\ buy # <<>>
    /\ \E i \in 1..Len(sell) : sell[i].order_id = order.order_id

\* C5: the value returned for a rejected duplicate differs from the value
\* returned for an accepted order that produced no trade (stated for two
\* consecutive calls).
DuplicateDistinguishable ==
    [][(order # NoOrder /\ accepted /\ SumVolume(ret) = 0 /\ ~accepted')
        => ret' # ret]_vars

\* C6 as written: for A ahead of B on one side at one price, an incoming
\* crossing order with a quantity less than the remaining quantity of A
\* trades only with A and leaves B unchanged.
TimePriorityRemaining ==
    [][\A i, j \in 1..Len(Against(order', buy, sell)) :
        LET ag == Against(order', buy, sell)
            ag2 == Against(order', buy', sell')
        IN  (/\ accepted'
             /\ i < j
             /\ ag[i].price = ag[j].price
             /\ IsGoodPrice(order', ag[i])
             /\ order'.quantity < ag[i].quantity)
            => /\ \A k \in 1..Len(ret') :
                     Counterparty(order', ret'[k]) = ag[i].order_id
               /\ \E k \in 1..Len(ag2) : ag2[k] = ag[j]]_vars

\* C6 as amended: for A at the front of its side and B behind it at the
\* same price, an incoming crossing order with a quantity of at most the
\* visible quantity of A trades only with A, in one transaction of the
\* quantity of the order, and leaves B unchanged.
TimePriorityVisible ==
    [][\A j \in 1..Len(Against(order', buy, sell)) :
        LET ag == Against(order', buy, sell)
            ag2 == Against(order', buy', sell')
        IN  (/\ accepted'
             /\ 1 < j
             /\ ag[1].price = ag[j].price
             /\ IsGoodPrice(order', ag[1])
             /\ order'.quantity <= ag[1].current_peak_size)
            => /\ Len(ret') = 1
               /\ Counterparty(order', ret'[1]) = ag[1].order_id
               /\ ret'[1].volume = order'.quantity
               /\ \E k \in 1..Len(ag2) : ag2[k] = ag[j]]_vars

\* C6 witness: the last order was filled in full by one transaction against
\* an iceberg record that was not restamped (so the fill was within its
\* visible quantity), and a second record rests behind it at its price.
TimePriorityWitness ==
    /\ accepted /\ Len(ret) = 1
    /\ ret[1].volume = order.quantity
    /\ LET ag == Against(order, buy, sell)
       IN  /\ Len(ag) >= 2
           /\ ag[1].order_id = Counterparty(order, ret[1])
           /\ ag[1].timestamp < timestamp
           /\ ag[1].quantity > ag[1].current_peak_size
           /\ ag[2].price = ag[1].price

\* C7: each side is strictly sorted front to back by the total order of
\* the records.
Sorted(lst) == \A i, j \in 1..Len(lst) : i < j => Less(lst[i], lst[j])

SidesSorted == Sorted(buy) /\ Sorted(sell)

\* C7 witness: two records rest at one price on one side, the first of them
\* restamped by the last call and the second one older than it or
\* renumbered by the replenishment.
SidesSortedWitness ==
    \E side \in {buy, sell} : \E i, j \in 1..Len(side) :
        /\ i < j
        /\ side[i].price = side[j].price
        /\ side[j].timestamp = timestamp
        /\ side[j].order_id # order.order_id
        /\ (side[j].order_priority > 0 \/ side[i].timestamp < timestamp)

\* C8: for an accepted order of quantity Q the returned volumes sum to F
\* with 0 <= F <= Q; if F = Q no record with the id of the order rests, and
\* if F < Q exactly one record with that id rests, on the side of the order,
\* with remaining quantity Q - F and the current clock as its timestamp.
CallAccounting ==
    (order # NoOrder /\ accepted) =>
        LET F == SumVolume(ret)
            own == OwnSide(order, buy, sell)
            opp == Against(order, buy, sell)
            mine(lst) == {i \in 1..Len(lst) :
                            lst[i].order_id = order.order_id}
        IN  /\ 0 <= F /\ F <= order.quantity
            /\ mine(opp) = {}
            /\ F = order.quantity => mine(own) = {}
            /\ F < order.quantity =>
                  /\ Cardinality(mine(own)) = 1
                  /\ \A i \in mine(own) :
                        /\ own[i].quantity = order.quantity - F
                        /\ own[i].timestamp = timestamp

\* C8 witness: the last order was filled in part and rests with the rest.
CallAccountingWitness ==
    /\ accepted
    /\ 0 < SumVolume(ret) /\ SumVolume(ret) < order.quantity
    /\ \E i \in 1..Len(Resting) : Resting[i].order_id = order.order_id

\* the hidden-pass quantities of a record that was E before the call and
\* is E2 after it: hidden quantity R reached by the pass and outstanding
\* quantity q that the pass took from it
HiddenR(E) == E.quantity - E.current_peak_size
HiddenQ(E, E2) == (E.quantity - E2.quantity) - E.current_peak_size

\* C9: a record that the hidden pass reaches with remaining quantity R
\* while the order still needs q, 0 < q < R, ends the call with remaining
\* quantity R - q, visible quantity min(max_peak - q mod max_peak, R - q)
\* and the current clock as timestamp; the order is filled in full, and the
\* whole fill of the record is reported in one transaction.
IcebergPartialFill ==
    [][\A i \in 1..Len(Against(order', buy, sell)) :
       \A k \in 1..Len(Against(order', buy', sell')) :
        LET E == Against(order', buy, sell)[i]
            E2 == Against(order', buy', sell')[k]
            q == HiddenQ(E, E2)
            R == HiddenR(E)
            txs == {n \in 1..Len(ret') :
                      Counterparty(order', ret'[n]) = E.order_id}
        IN  (accepted' /\ E2.order_id = E.order_id /\ q > 0)
            => /\ R > q
               /\ E2.quantity = R - q
               /\ E2.current_peak_size =
                     Min(E.max_peak_size - (q % E.max_peak_size), R - q)
               /\ E2.timestamp = timestamp'
               /\ SumVolume(ret') = order'.quantity
               /\ \A n \in 1..Len(Resting') :
                     Resting'[n].order_id # order'.order_id
               /\ Cardinality(txs) = 1
               /\ \A n \in txs :
                     ret'[n].volume = E.current_peak_size + q]_vars

\* C9 witness: the last order was filled in full and its counterparty, an
\* iceberg record stamped by this call, shows less than both its peak size
\* and its remaining quantity (the modulo decided the visible quantity).
IcebergPartialFillWitness ==
    /\ accepted /\ Len(ret) = 1
    /\ ret[1].volume = order.quantity
    /\ \E i \in 1..Len(Against(order, buy, sell)) :
          LET E2 == Against(order, buy, sell)[i]
          IN  /\ E2.order_id = Counterparty(order, ret[1])
              /\ E2.timestamp = timestamp
              /\ E2.current_peak_size < E2.max_peak_size
              /\ E2.current_peak_size < E2.quantity

\* C10: the transactions of one call have distinct counterparties and
\* positive volumes; the volume of each is the amount by which the remaining
\* quantity of its counterparty decreased in the call, and every record of
\* the opposite side whose remaining quantity decreased has exactly one
\* transaction.
TransactionAggregation ==
    [][accepted' =>
        LET ag == Against(order', buy, sell)
            ag2 == Against(order', buy', sell')
            cp(n) == Counterparty(order', ret'[n])
        IN  /\ \A m, n \in 1..Len(ret') : m # n => cp(m) # cp(n)
            /\ \A n \in 1..Len(ret') :
                  /\ ret'[n].volume > 0
                  /\ \E i \in 1..Len(ag) : ag[i].order_id = cp(n)
                  /\ ret'[n].volume
                        = QuantityOf(ag, cp(n)) - QuantityOf(ag2, cp(n))
            /\ \A i \in 1..Len(ag) :
                  QuantityOf(ag2, ag[i].order_id) < ag[i].quantity
                  => Cardinality({n \in 1..Len(ret') :
                                    cp(n) = ag[i].order_id}) = 1]_vars

\* C10 witness: the last call returned two transactions, one of them for a
\* record filled from its visible and from its hidden quantity.
TransactionAggregationWitness ==
    /\ accepted /\ Len(ret) = 2
    /\ \E n \in 1..2 : \E i \in 1..Len(Against(order, buy, sell)) :
          LET E2 == Against(order, buy, sell)[i]
          IN  /\ E2.order_id = Counterparty(order, ret[n])
              /\ ret[n].volume > E2.max_peak_size

\* the position in lst of the record with the given id
PosOf(lst, id) == CHOOSE i \in 1..Len(lst) : lst[i].order_id = id

Rests(lst, id) == \E i \in 1..Len(lst) : lst[i].order_id = id

\* the amount by which the call reduced the remaining quantity of ag[i]
Fill(ag, ag2, i) == ag[i].quantity - QuantityOf(ag2, ag[i].order_id)

\* record a has a strictly better price than record b for the order o
BetterPrice(o, a, b) ==
    IF o.is_buy THEN a.price < b.price ELSE a.price > b.price

\* lst without its k-th element
RemoveAt(lst, k) == SubSeq(lst, 1, k - 1) \o SubSeq(lst, k + 1, Len(lst))

\* C12: the transactions of one call are in the order their counterparties
\* had in the opposite queue before the call.
EmissionOrder ==
    [][accepted' =>
        LET ag == Against(order', buy, sell)
        IN  \A m, n \in 1..Len(ret') :
                m < n =>
                    /\ Rests(ag, Counterparty(order', ret'[m]))
                    /\ Rests(ag, Counterparty(order', ret'[n]))
                    /\ PosOf(ag, Counterparty(order', ret'[m]))
                          < PosOf(ag, Counterparty(order', ret'[n]))]_vars

\* C12 witness: the last call returned two transactions at two prices, the
\* first of them for a record whose hidden quantity was used.
EmissionOrderWitness ==
    /\ accepted /\ Len(ret) = 2
    /\ ret[1].price # ret[2].price
    /\ ret[1].volume >= 2

\* C14: a record is filled for more than its visible quantity only if
\* every record of its price level had its whole visible quantity consumed
\* in the same call.
VisibleBeforeHidden ==
    [][accepted' =>
        LET ag == Against(order', buy, sell)
            ag2 == Against(order', buy', sell')
        IN  \A i, j \in 1..Len(ag) :
                (/\ ag[i].price = ag[j].price
                 /\ Fill(ag, ag2, i) > ag[i].current_peak_size)
                => Fill(ag, ag2, j) >= ag[j].current_peak_size]_vars

\* C14 witness: the last call returned two transactions at one price, and
\* the counterparty of the first one survives, stamped by this call, after
\* a fill larger than its peak size.
VisibleBeforeHiddenWitness ==
    /\ accepted /\ Len(ret) = 2
    /\ ret[1].price = ret[2].price
    /\ LET ag == Against(order, buy, sell)
           id == Counterparty(order, ret[1])
       IN  /\ Rests(ag, id)
           /\ ag[PosOf(ag, id)].timestamp = timestamp
           /\ ret[1].volume > ag[PosOf(ag, id)].max_peak_size

\* C15: a record receives a fill only if every record of the opposite side
\* with a strictly better price was consumed in full by the same call.
PricePriority ==
    [][accepted' =>
        LET ag == Against(order', buy, sell)
            ag2 == Against(order', buy', sell')
        IN  \A i, j \in 1..Len(ag) :
                (Fill(ag, ag2, i) > 0 /\ BetterPrice(order', ag[j], ag[i]))
                => ~Rests(ag2, ag[j].order_id)]_vars

\* C15 witness: the last call traded at two prices and its second
\* counterparty still rests.
PricePriorityWitness ==
    /\ accepted /\ Len(ret) = 2
    /\ ret[1].price # ret[2].price
    /\ Rests(Against(order, buy, sell), Counterparty(order, ret[2]))

\* C16: a surviving record whose visible quantity was consumed in full by
\* the call has the current clock as timestamp and is behind every record
\* of its price whose visible quantity was not consumed in full; those keep
\* their timestamp.
ReplenishedLosesPriority ==
    [][accepted' =>
        LET ag == Against(order', buy, sell)
            ag2 == Against(order', buy', sell')
        IN  \A i \in 1..Len(ag) :
                (/\ Fill(ag, ag2, i) >= ag[i].current_peak_size
                 /\ Rests(ag2, ag[i].order_id))
                => /\ ag2[PosOf(ag2, ag[i].order_id)].timestamp = timestamp'
                   /\ \A j \in 1..Len(ag) :
                        (/\ ag[j].price = ag[i].price
                         /\ Fill(ag, ag2, j) < ag[j].current_peak_size)
                        => /\ Rests(ag2, ag[j].order_id)
                           /\ PosOf(ag2, ag[j].order_id)
                                 < PosOf(ag2, ag[i].order_id)
                           /\ ag2[PosOf(ag2, ag[j].order_id)].timestamp
                                 = ag[j].timestamp]_vars

\* C16 witness: a counterparty of the last call, stamped by it, rests
\* behind an older record of its price.
ReplenishedLosesPriorityWitness ==
    /\ accepted /\ ret # <<>>
    /\ LET ag == Against(order, buy, sell)
       IN  \E i, j \in 1..Len(ag) :
              /\ i < j
              /\ ag[i].price = ag[j].price
              /\ ag[i].timestamp < timestamp
              /\ ag[j].timestamp = timestamp
              /\ \E n \in 1..Len(ret) :
                    Counterparty(order, ret[n]) = ag[j].order_id

\* C17: every transaction of an incoming buy has the order as buyer, a
\* record that rested on the sell side as seller and the price of that
\* record, which is at most the limit of the order; symmetrically for an
\* incoming sell.
TransactionRoles ==
    [][accepted' =>
        LET ag == Against(order', buy, sell)
        IN  \A n \in 1..Len(ret') :
              LET own == IF order'.is_buy THEN ret'[n].buy_id
                         ELSE ret'[n].sell_id
                  other == IF order'.is_buy THEN ret'[n].sell_id
                           ELSE ret'[n].buy_id
              IN  /\ own = order'.order_id
                  /\ Rests(ag, other)
                  /\ ret'[n].price = ag[PosOf(ag, other)].price
                  /\ IF order'.is_buy THEN ret'[n].price <= order'.price
                     ELSE ret'[n].price >= order'.price]_vars

\* C17 witness: the last order was a buy that traded below its limit.
TransactionRolesWitness ==
    /\ accepted /\ ret # <<>>
    /\ order.is_buy
    /\ ret[1].price < order.price
    /\ ret[1].buy_id # ret[1].sell_id

\* C18: add never fails: the hidden pass finds the key of every record in
\* the dictionary and the assertion of the replenishment holds.
NoInternalFailure == failure = "none"

\* C18 witness: the hidden pass of the last call added to the entries of
\* two records, one of which it exhausted.
NoInternalFailureWitness ==
    /\ accepted /\ Len(ret) = 2
    /\ ret[1].price = ret[2].price
    /\ ~Rests(Against(order, buy, sell), Counterparty(order, ret[1]))
    /\ LET ag == Against(order, buy, sell)
           id == Counterparty(order, ret[2])
       IN  /\ Rests(ag, id)
           /\ ret[2].volume > ag[PosOf(ag, id)].max_peak_size

\* the order o does not accept the price of the record (ask above the buy
\* limit, bid below the sell limit)
Unacceptable(o, record) ==
    IF o.is_buy THEN record.price > o.price ELSE record.price < o.price

\* C19: a call changes the own side of the order at most by inserting one
\* record with the id of the order, changes no opposite record whose price
\* the order does not accept, and returns no transaction when it accepts
\* no opposite price.
Frame ==
    [][LET own == OwnSide(order', buy, sell)
           own2 == OwnSide(order', buy', sell')
           ag == Against(order', buy, sell)
           ag2 == Against(order', buy', sell')
       IN  /\ \/ own2 = own
              \/ \E k \in 1..Len(own2) :
                    /\ own2[k].order_id = order'.order_id
                    /\ RemoveAt(own2, k) = own
           /\ \A i \in 1..Len(ag) :
                 Unacceptable(order', ag[i])
                 => \E k \in 1..Len(ag2) : ag2[k] = ag[i]
           /\ (\A i \in 1..Len(ag) : Unacceptable(order', ag[i]))
                 => ret' = <<>>]_vars

\* C19 witness: the last order traded and rested its remainder, while the
\* opposite side keeps a record at a price the order does not accept.
FrameWitness ==
    /\ accepted /\ ret # <<>>
    /\ Rests(OwnSide(order, buy, sell), order.order_id)
    /\ \E i \in 1..Len(Against(order, buy, sell)) :
          Unacceptable(order, Against(order, buy, sell)[i])

\* C20: no two resting records, on one side or on both, have the same id.
UniqueRestingIds ==
    \A i, j \in 1..Len(Resting) :
        i # j => Resting[i].order_id # Resting[j].order_id

\* C20 witness: the last call re-submitted the id of a record that rests on
\* the side of the order next to another record, and was rejected.
UniqueRestingIdsWitness ==
    /\ order # NoOrder /\ ~accepted
    /\ Rests(OwnSide(order, buy, sell), order.order_id)
    /\ Len(OwnSide(order, buy, sell)) >= 2

\* C13: two records of one price that are both stamped with the current
\* clock by one call and both keep resting are in the same relative order
\* after the call as before it.
SameCallOrder ==
    [][accepted' =>
        LET ag == Against(order', buy, sell)
            ag2 == Against(order', buy', sell')
        IN  \A i, j \in 1..Len(ag) :
                (/\ i < j
                 /\ ag[i].price = ag[j].price
                 /\ Rests(ag2, ag[i].order_id)
                 /\ Rests(ag2, ag[j].order_id)
                 /\ ag2[PosOf(ag2, ag[i].order_id)].timestamp = timestamp'
                 /\ ag2[PosOf(ag2, ag[j].order_id)].timestamp = timestamp')
                => PosOf(ag2, ag[i].order_id)
                      < PosOf(ag2, ag[j].order_id)]_vars

\* the book and the two returned values after the calls of first and then
\* second, each as one step, on the book that holds c_seed
SerialOutcome(first, second) ==
    LET r0 == AddResult(<<>>, <<>>, 0, c_seed)
        r1 == AddResult(r0.buy, r0.sell, r0.timestamp, thread[first].order)
        r2 == AddResult(r1.buy, r1.sell, r1.timestamp, thread[second].order)
    IN  [buy |-> r2.buy, sell |-> r2.sell,
         rets |-> [t \in Threads |-> IF t = first THEN r1.ret ELSE r2.ret]]

\* the ids and remaining quantities of the records of a side
Holdings(lst) ==
    [i \in 1..Len(lst) |->
        [order_id |-> lst[i].order_id, quantity |-> lst[i].quantity]]

\* what is compared of an outcome: which orders rest on each side, in
\* which order and with which remaining quantity, and the returned values
Summary(x) ==
    [buy |-> Holdings(x.buy), sell |-> Holdings(x.sell), rets |-> x.rets]

\* the book and the two returned values the threads produced
ConcOutcome ==
    [buy |-> Vals(c_recs, c_lists[c_buy]),
     sell |-> Vals(c_recs, c_lists[c_sell]),
     rets |-> [t \in Threads |-> thread[t].ret]]

\* C11: when two concurrent add calls have returned, the resting orders
\* (ids and remaining quantities, side by side) and the returned
\* transactions are those of one of the two serial executions of the calls:
\* no rested order and no fill is lost.
AddIsAtomic ==
    (\A t \in Threads : thread[t].pc = "done")
        => Summary(ConcOutcome) \in {Summary(SerialOutcome(1, 2)),
                                     Summary(SerialOutcome(2, 1))}

====
